---- MODULE Spec2Model ----
(***************************************************************************)
(* sortedIndex / sortedIndexOf (src/unnamed/part_000): a recursive binary   *)
(* search for the lower bound of a value in an array, and the membership    *)
(* lookup built on it.  One run of the model is one call                    *)
(* sortedIndexOf(array, value); every invocation of sortedIndex (the        *)
(* initial one and each recursive one) is one step.  JavaScript indices are *)
(* 0-based and are kept 0-based here; the TLA+ sequence is read through At. *)
(***************************************************************************)
EXTENDS Integers, Sequences, FiniteSets

\* ---- bounds of the model ----
MaxLen == 5
NumVals == 4
MaxCalls == 2

\* Array elements 10, 20, ...; queries are the elements and the values
\* between, below and above them (5, 15, ...).
Values == {10 * k : k \in 1..NumVals}
Queries == Values \cup {10 * k - 5 : k \in 1..(NumVals + 1)}

\* Depth at which the recursion is cut off (the engine's call stack is
\* finite); more than any search of an array of MaxLen elements needs.
StackLimit == MaxLen + 3

\* JavaScript's undefined: what an out-of-range read and an omitted argument
\* give.  It is not an element of Values or Queries.
Undefined == -100
\* The _range argument when it is omitted.
NoRange == <<>>
\* A variable that no statement has assigned yet.
Unset == -2

Arrays == UNION {[1..n -> Values] : n \in 0..MaxLen}

VARIABLES array, value, range, pc, index, result, steps, calls, lastIndex, lastResult

vars == <<array, value, range, pc, index, result, steps, calls, lastIndex, lastResult>>

\* ---- pure helpers ----

\* array[i] in JavaScript: undefined outside 0 .. length-1.
At(a, i) == IF i >= 0 /\ i < Len(a) THEN a[i + 1] ELSE Undefined

\* x <= y on numbers; any comparison with undefined is false.
LeqStrict(x, y) == IF x = Undefined \/ y = Undefined THEN FALSE ELSE x < y
Leq(x, y) == IF x = Undefined \/ y = Undefined THEN FALSE ELSE x <= y

\* const [low, high] = _range ?? [0, array.length]
DefaultRangeShort(a) == <<1, Len(a)>>
DefaultRangeLong(a) == <<0, Len(a) + 1>>
DefaultRange(a) == <<0, Len(a)>>

RangeOf(a, r) == IF r = NoRange THEN DefaultRange(a) ELSE r

\* low + Math.floor((high - low) / 2); \div rounds toward minus infinity,
\* as Math.floor does.
MidPointCeil(lo, hi) == lo + ((hi - lo + 1) \div 2)
MidPoint(lo, hi) == lo + ((hi - lo) \div 2)

\* value <= array[midPoint] ? [low, midPoint] : [midPoint + 1, high]
NewRangeNoSkip(a, v, lo, hi) ==
    IF Leq(v, At(a, MidPoint(lo, hi)))
    THEN <<lo, MidPoint(lo, hi)>>
    ELSE <<MidPoint(lo, hi), hi>>
NewRange(a, v, lo, hi) ==
    IF Leq(v, At(a, MidPoint(lo, hi)))
    THEN <<lo, MidPoint(lo, hi)>>
    ELSE <<MidPoint(lo, hi) + 1, hi>>

\* array[index] === value ? index : -1
SortedIndexOfResultUnchecked(a, v, i) == i
SortedIndexOfResult(a, v, i) == IF At(a, i) = v THEN i ELSE -1

\* The range the pending invocation of sortedIndex works on.
Low == RangeOf(array, range)[1]
High == RangeOf(array, range)[2]

\* ---- the state machine ----

Init ==
    /\ array \in Arrays
    /\ value \in Queries
    /\ range = NoRange
    /\ pc = "sortedIndex"
    /\ index = Unset
    /\ result = Unset
    /\ steps = 0
    /\ calls = 1
    /\ lastIndex = Unset
    /\ lastResult = Unset

\* sortedIndex, lines 5-8: the range is empty, return low to sortedIndexOf,
\* which binds it to index (line 19).
SortedIndexReturn ==
    /\ pc = "sortedIndex"
    /\ Low = High
    /\ index' = Low
    /\ pc' = "line20"
    /\ UNCHANGED <<array, value, range, result, steps, calls, lastIndex, lastResult>>

\* sortedIndex, lines 10-15: narrow the range and recurse.
SortedIndexRecurseWriting ==
    /\ pc = "sortedIndex"
    /\ Low # High
    /\ steps < StackLimit
    /\ range' = NewRange(array, value, Low, High)
    /\ steps' = steps + 1
    /\ array' = IF MidPoint(Low, High) >= 0 /\ MidPoint(Low, High) < Len(array)
                THEN [array EXCEPT ![MidPoint(Low, High) + 1] = value]
                ELSE array
    /\ UNCHANGED <<value, pc, index, result, calls, lastIndex, lastResult>>
SortedIndexRecurse ==
    /\ pc = "sortedIndex"
    /\ Low # High
    /\ steps < StackLimit
    /\ range' = NewRange(array, value, Low, High)
    /\ steps' = steps + 1
    /\ UNCHANGED <<array, value, pc, index, result, calls, lastIndex, lastResult>>

\* sortedIndexOf, line 20.
SortedIndexOfReturn ==
    /\ pc = "line20"
    /\ result' = SortedIndexOfResult(array, value, index)
    /\ pc' = "done"
    /\ UNCHANGED <<array, value, range, index, steps, calls, lastIndex, lastResult>>

\* The caller calls sortedIndexOf again with the same arguments; the results
\* of the finished call are kept by the caller for comparison.
CallAgain ==
    /\ pc = "done"
    /\ calls < MaxCalls
    /\ calls' = calls + 1
    /\ lastIndex' = index
    /\ lastResult' = result
    /\ range' = NoRange
    /\ pc' = "sortedIndex"
    /\ index' = Unset
    /\ result' = Unset
    /\ steps' = 0
    /\ UNCHANGED <<array, value>>

Next ==
    \/ SortedIndexReturn
    \/ SortedIndexRecurse
    \/ SortedIndexOfReturn
    \/ CallAgain

Spec == Init /\ [][Next]_vars

\* A call runs synchronously to completion: no step that is possible is
\* postponed forever.
FairSpec == Spec /\ WF_vars(Next)

\* ---- vocabulary of the properties ----

N == Len(array)
Idx == 0..(N - 1)
IsSorted(a) == \A i \in 1..(Len(a) - 1) : a[i] <= a[i + 1]
Occurs(a, v) == \E i \in 1..Len(a) : a[i] = v
FirstOccurrence(a, v) == CHOOSE i \in 0..(Len(a) - 1) :
    /\ a[i + 1] = v
    /\ \A j \in 0..(i - 1) : a[j + 1] # v
Returned == pc \in {"line20", "done"}

RECURSIVE FloorLog2(_)
FloorLog2(n) == IF n <= 1 THEN 0 ELSE 1 + FloorLog2(n \div 2)

\* ---- properties ----

\* C1: on an ascending-sorted array, the index sortedIndex returns splits the
\* array: every element before it is strictly less than the value and every
\* element at or after it is greater than or equal to the value.
LowerBoundSplits ==
    (Returned /\ IsSorted(array)) =>
        \A j \in Idx : /\ (j < index => array[j + 1] < value)
                       /\ (j >= index => array[j + 1] >= value)

LowerBoundSplitsWitness ==
    /\ pc = "line20"
    /\ IsSorted(array)
    /\ N >= 4
    /\ index > 0 /\ index < N
    /\ steps >= 2
    /\ ~Occurs(array, value)

\* C2: sortedIndexOf returns -1 whenever the value does not occur in the
\* array (sorted or not); when it occurs and the array is sorted ascending,
\* the lowest index holding the value is returned.
IndexOfContract ==
    pc = "done" =>
        /\ (~Occurs(array, value) => result = -1)
        /\ ((Occurs(array, value) /\ IsSorted(array)) =>
                result = FirstOccurrence(array, value))

IndexOfContractWitness ==
    /\ pc = "done"
    /\ IsSorted(array)
    /\ Cardinality({i \in 1..N : array[i] = value}) >= 2
    /\ result >= 1
    /\ array[result + 1] = value

\* C3: for any array, sorted or not, sortedIndex returns an index in 0..N,
\* and the search never fails: the recursion never runs into the stack limit.
LowerBoundInRange ==
    /\ (Returned => (index >= 0 /\ index <= N))
    /\ ((pc = "sortedIndex" /\ Low # High) => steps < StackLimit)

LowerBoundInRangeWitness ==
    /\ pc = "line20"
    /\ ~IsSorted(array)
    /\ N >= 3
    /\ index = N
    /\ Occurs(array, value)

\* C4: on a sorted array containing the value one or more times, sortedIndex
\* returns the index of its first occurrence; in particular
\* sortedIndex([10,20,30,30,40], 30) = 2.
LowerBoundLeftmostTie ==
    /\ (Returned /\ IsSorted(array) /\ Occurs(array, value)) =>
            index = FirstOccurrence(array, value)
    /\ (Returned /\ array = <<10, 20, 30, 30, 40>> /\ value = 30) => index = 2

LowerBoundLeftmostTieWitness ==
    /\ pc = "line20"
    /\ array = <<10, 20, 30, 30, 40>>
    /\ value = 30
    /\ index = 2

\* C5: on a sorted array, an empty array gives 0, a value smaller than every
\* element gives 0, and a value larger than every element gives N.
LowerBoundBoundaries ==
    (Returned /\ IsSorted(array)) =>
        /\ (N = 0 => index = 0)
        /\ ((\A j \in Idx : value < array[j + 1]) => index = 0)
        /\ ((\A j \in Idx : value > array[j + 1]) => index = N)

LowerBoundBoundariesWitness ==
    /\ pc = "line20"
    /\ IsSorted(array)
    /\ N >= 3
    /\ \A j \in Idx : value > array[j + 1]
    /\ index = N
    /\ steps >= 2

\* C6: absence is reported by -1: for the empty array, and whenever
\* sortedIndex returned N, the read at the out-of-range index gives undefined,
\* which does not match, and the result is -1; every result other than -1 is
\* an index in 0..N-1 whose element equals the value.
IndexOfSentinel ==
    pc = "done" =>
        /\ (N = 0 => result = -1)
        /\ (index = N => (At(array, index) = Undefined /\ result = -1))
        /\ (result # -1 =>
                (result >= 0 /\ result < N /\ At(array, result) = value))

IndexOfSentinelWitness ==
    /\ pc = "done"
    /\ N >= 2
    /\ index = N
    /\ result = -1
    /\ \A j \in Idx : value > array[j + 1]

\* C7: no step of the search changes the caller's array or value, and a
\* second call with the same arguments returns what the first returned, both
\* from sortedIndex and from sortedIndexOf.
NoSideEffects ==
    [][ /\ array' = array
        /\ value' = value
        /\ ((pc' = "done" /\ calls' > 1) =>
                (index' = lastIndex' /\ result' = lastResult')) ]_vars

NoSideEffectsWitness ==
    /\ pc = "done"
    /\ calls = 2
    /\ steps >= 2
    /\ result = lastResult
    /\ result >= 0

\* C8: the search terminates on any array: every recursive step shrinks
\* high - low by at least one, sortedIndex returns exactly when low = high and
\* returns low, and the recursive steps number at most floor(log2(N)) + 1 for
\* N >= 1 and 0 for N = 0.
StepShrinks ==
    (pc = "sortedIndex" /\ steps' = steps + 1) =>
        (High' - Low' <= High - Low - 1 /\ Low # High)
ReturnsLowAtEmptyRange ==
    (pc = "sortedIndex" /\ pc' = "line20") => (Low = High /\ index' = Low)
StepBound ==
    steps <= (IF N = 0 THEN 0 ELSE FloorLog2(N) + 1)
SearchTerminates ==
    /\ [][StepShrinks /\ ReturnsLowAtEmptyRange]_vars
    /\ [](StepBound /\ (pc = "sortedIndex" /\ Low = High => ENABLED SortedIndexReturn))
    /\ ((pc = "sortedIndex") ~> (pc = "line20"))

SearchTerminatesWitness ==
    /\ pc = "line20"
    /\ ~IsSorted(array)
    /\ N = 4
    /\ steps = 3

\* C9: while the search runs, 0 <= low <= high <= N; when a step is due
\* (low < high) the midpoint lies in low..high-1, so the element compared
\* with the value is at an index in 0..N-1.
RangeWithinBounds ==
    pc = "sortedIndex" =>
        /\ 0 <= Low /\ Low <= High /\ High <= N
        /\ (Low < High =>
                /\ Low <= MidPoint(Low, High)
                /\ MidPoint(Low, High) < High
                /\ MidPoint(Low, High) \in Idx
                /\ At(array, MidPoint(Low, High)) # Undefined)

RangeWithinBoundsWitness ==
    /\ pc = "sortedIndex"
    /\ steps >= 1
    /\ ~IsSorted(array)
    /\ Low < High
    /\ High = N
    /\ MidPoint(Low, High) = N - 1

\* C10: on a sorted array, every range the search reaches keeps the answer:
\* each element below low is strictly less than the value and each element at
\* or above high is greater than or equal to it.
RangeKeepsAnswer ==
    (pc = "sortedIndex" /\ IsSorted(array)) =>
        \A j \in Idx : /\ (j < Low => array[j + 1] < value)
                       /\ (j >= High => array[j + 1] >= value)

RangeKeepsAnswerWitness ==
    /\ pc = "sortedIndex"
    /\ IsSorted(array)
    /\ steps >= 2
    /\ Low > 0 /\ High < N /\ Low < High
    /\ Occurs(array, value)

====
